---- MODULE Spec2Model ----
(***************************************************************************)
(* Cluster node-health reconciler: the event hooks of                      *)
(* middlewared/scripts/ctdb_events.py (class CtdbEvent), the shared        *)
(* service configuration file, the per-node status file and the services   *)
(* of the control plane they drive. Spec is the monitoring of a node,      *)
(* SpecEvents the other events of the clustering daemon, SpecSave the      *)
(* save of the per-node file taken step by step beside a reader.           *)
(* Beside it, two plugins: the kubernetes migration runner                 *)
(* (SpecMigrations) and the CloudFlare ACME authenticator (SpecAuth).      *)
(***************************************************************************)
EXTENDS Integers, Sequences, FiniteSets, TLC

VARIABLES
    sharedFile,   \* <mountpoint>/.clustered_services, the cluster-wide configuration
    nodeFile,     \* <mountpoint>/.clustered_services.<pnn>, this node's status file
    srvState,     \* control plane: run state of each service
    srvEnable,    \* control plane: enabled flag of each service
    now,          \* CLOCK_REALTIME, advanced by one at every monitoring tick
    tick,         \* the hook run that has just ended: its locals and its effects
    prev,         \* the run before was a completed tick in the desired state,
                  \* and nothing outside the hook has changed since
    lock,         \* the advisory lock held on the per-node file
    pc,           \* where the tick saving the per-node file and a reader of it stand
    seen,         \* what the reader last loaded from the per-node file
    migFile,      \* /mnt/<dataset>/migrations.json of the kubernetes plugin
    runner,       \* the invocations of k8s.migration.run: their locals and position
    done,         \* how many times each migration has completed without error
    tried,        \* how many times each migration has been attempted
    clean,        \* no run has overlapped another, no one has damaged migFile
    runs,         \* how many invocations of k8s.migration.run have begun
    auth          \* a CloudFlareAuthenticator: its attributes and its construction

\* The steps of the save and of a concurrent read of the per-node file.
saveVars == <<lock, pc, seen>>

\* The state of the clustering hooks.
ctdbVars == <<sharedFile, nodeFile, srvState, srvEnable, now, tick, prev, lock, pc, seen>>

\* The state of the kubernetes migration runner and of the ACME authenticator.
pluginVars == <<migFile, runner, done, tried, clean, runs, auth>>

vars == <<sharedFile, nodeFile, srvState, srvEnable, now, tick, prev, lock, pc, seen,
          migFile, runner, done, tried, clean, runs, auth>>

\* Number of monitoring ticks of a behaviour (the clock stops there).
MaxTime == 2

Services == {"svcA", "svcB"}
None == "None"
SENTINEL == "ctdb_shared_volume"
NOT_MOUNTED == "ctdb shared volume not mounted"
ENOTCONN_MSG == "IO operation on gluster volume fuse mount containing ctdbd metadata failed with ENOTCONN."

EmptyMap == [s \in {} |-> None]

\* One entry of the service configuration: srv['name'], srv['service_enable'],
\* srv['monitor_enable'].
ServiceSpec == [name : Services, service_enable : BOOLEAN, monitor_enable : BOOLEAN]

Names(q) == {q[i].name : i \in DOMAIN q}

\* The services, named in the order in which a mapping lists them.
ServiceOrder == <<"svcA", "svcB">>
Position(name) == CHOOSE i \in DOMAIN ServiceOrder : ServiceOrder[i] = name

\* A configuration mapping, in its iteration order (a dict keyed by service name).
SpecMaps ==
    {q \in UNION {[1..k -> ServiceSpec] : k \in 0..Cardinality(Services)} :
        \A i, j \in DOMAIN q : i < j => Position(q[i].name) < Position(q[j].name)}

\* CTDB_SERVICE_DEFAULTS is imported from a module outside the files at hand:
\* a run may meet any mapping of at most one entry, about the first service.
DefaultMaps == {q \in SpecMaps : Len(q) <= 1 /\ Names(q) \subseteq {ServiceOrder[1]}}

Monitored(q) == {q[i].name : i \in {j \in DOMAIN q : q[j].monitor_enable}}
Unmonitored(q) == {q[i].name : i \in {j \in DOMAIN q : ~q[j].monitor_enable}}

\* The value of node_status[name] written at the end of one evaluation.
Observation(final_state, ts, error) ==
    [running |-> final_state = "RUNNING", last_check |-> ts, error |-> error]

\* A file holding JSON text: f.write(json.dumps(...)) and json.load(f).
json_dumps(m) == [kind |-> "ok", data |-> m]
MissingFile == [kind |-> "missing", data |-> EmptyMap]
CorruptFile == [kind |-> "corrupt", data |-> EmptyMap]
MissingSpec == [kind |-> "missing", data |-> <<>>]

\* The exception text of a failed control-plane call.
ErrorOf(method, name) == method \o " failed for " \o name

SuccessPayload ==
    [event |-> "MONITOR", status |-> "SUCCESS", reason |-> None, service |-> None]
FailurePayload(reason, service) ==
    [event |-> "MONITOR", status |-> "FAILURE", reason |-> reason, service |-> service]

\* check_ctdb_shared_volume: None, or the text of the exception it raises.
check_ctdb_shared_volume(vol) ==
    CASE vol = "mounted" -> None
      [] vol = "unmounted" -> NOT_MOUNTED
      [] OTHER -> "ctdb.shared.volume.config failed"

\* load_service_file: cl_services, node_status, and the text of the
\* RuntimeError it raises (None when it returns). io is what the reads on the
\* shared volume meet: "ENOTCONN", "EIO" (any other OSError, or text that is no
\* JSON), or "ok".
load_service_file(io, defaults) ==
    IF io = "ENOTCONN"
    THEN [cl_services |-> defaults, node_status |-> EmptyMap, exc |-> ENOTCONN_MSG]
    ELSE IF io = "EIO" \/ sharedFile.kind # "ok"
    THEN [cl_services |-> defaults, node_status |-> EmptyMap, exc |-> None]
    ELSE [cl_services |-> sharedFile.data,
          node_status |-> IF nodeFile.kind = "ok" THEN nodeFile.data ELSE EmptyMap,
          exc |-> None]


\* self.client.call(method, ...) about service `name`: the call is made, and
\* either returns or raises (ok = FALSE).
Call(st, method, name, ok) ==
    [st EXCEPT !.calls = Append(@, [method |-> method, service |-> name, ok |-> ok])]

\* An exception nothing in monitor() catches.
Raise(st, text) == [st EXCEPT !.exc = text]

\* start_service without its try/except: the failure leaves monitor().
start_service_uncaught(srv, st, f) ==
    IF "service.start" \in f
    THEN [st |-> Raise(Call(st, "service.start", srv.name, FALSE),
                       ErrorOf("service.start", srv.name)),
          final_state |-> "STOPPED",
          error |-> ErrorOf("service.start", srv.name)]
    ELSE [st |-> [Call(st, "service.start", srv.name, TRUE) EXCEPT
                    !.state[srv.name] = "RUNNING"],
          final_state |-> "RUNNING",
          error |-> None]

\* start_service taking a start that returned for one that did not take.
start_service_unrecorded(srv, st, f) ==
    IF "service.start" \in f
    THEN [st |-> [Call(st, "service.start", srv.name, FALSE) EXCEPT
                    !.payload = FailurePayload(
                        srv.name \o ": service failed to start: "
                                 \o ErrorOf("service.start", srv.name),
                        srv.name)],
          final_state |-> "STOPPED",
          error |-> ErrorOf("service.start", srv.name)]
    ELSE [st |-> [Call(st, "service.start", srv.name, TRUE) EXCEPT
                    !.state[srv.name] = "RUNNING"],
          final_state |-> "STOPPED",
          error |-> None]

\* try: service.start ... except Exception: the payload of a failed start.
start_service(srv, st, f) ==
    IF "service.start" \in f
    THEN [st |-> [Call(st, "service.start", srv.name, FALSE) EXCEPT
                    !.payload = FailurePayload(
                        srv.name \o ": service failed to start: "
                                 \o ErrorOf("service.start", srv.name),
                        srv.name)],
          final_state |-> "STOPPED",
          error |-> ErrorOf("service.start", srv.name)]
    ELSE [st |-> [Call(st, "service.start", srv.name, TRUE) EXCEPT
                    !.state[srv.name] = "RUNNING"],
          final_state |-> "RUNNING",
          error |-> None]

\* service.update(srvinfo['id'], {'enable': flag}), which nothing guards.
update_enable(srv, st, f, flag) ==
    IF "service.update" \in f
    THEN Raise(Call(st, "service.update", srv.name, FALSE),
               ErrorOf("service.update", srv.name))
    ELSE [Call(st, "service.update", srv.name, TRUE) EXCEPT !.enable[srv.name] = flag]

\* service.stop(srv['name']), which nothing guards.
stop_service(srv, st, f) ==
    IF "service.stop" \in f
    THEN Raise(Call(st, "service.stop", srv.name, FALSE),
               ErrorOf("service.stop", srv.name))
    ELSE [Call(st, "service.stop", srv.name, TRUE) EXCEPT !.state[srv.name] = "STOPPED"]

\* enabled_branch syncing the enabled flag only of a service found RUNNING.
enabled_branch_gated(srv, srvinfo, st, f) ==
    IF srvinfo.state # "RUNNING"
    THEN start_service(srv, st, f)
    ELSE IF ~srvinfo.enable
    THEN [st |-> update_enable(srv, st, f, TRUE), final_state |-> "RUNNING",
          error |-> None]
    ELSE [st |-> st, final_state |-> "RUNNING", error |-> None]

\* if srv['service_enable']: start when not RUNNING, then sync the enabled flag.
enabled_branch(srv, srvinfo, st, f) ==
    LET a == IF srvinfo.state # "RUNNING"
             THEN start_service(srv, st, f)
             ELSE [st |-> st, final_state |-> "RUNNING", error |-> None]
    IN  IF ~srvinfo.enable
        THEN [a EXCEPT !.st = update_enable(srv, a.st, f, TRUE)]
        ELSE a

\* else: disable when enabled, stop when RUNNING.
disabled_branch(srv, srvinfo, st, f) ==
    LET u == IF srvinfo.enable THEN update_enable(srv, st, f, FALSE) ELSE st
        s == IF u.exc = None /\ srvinfo.state = "RUNNING"
             THEN stop_service(srv, u, f)
             ELSE u
    IN  [st |-> s, final_state |-> "STOPPED", error |-> None]

\* One pass of the loop body for an entry with monitor_enable set.
evaluate(srv, st, f, ts) ==
    IF "service.query" \in f
    THEN Raise(Call(st, "service.query", srv.name, FALSE),
               ErrorOf("service.query", srv.name))
    ELSE LET srvinfo == [state |-> st.state[srv.name], enable |-> st.enable[srv.name]]
             q == [Call(st, "service.query", srv.name, TRUE) EXCEPT
                      !.queried = (srv.name :> srvinfo) @@ @]
             r == IF srv.service_enable
                  THEN enabled_branch(srv, srvinfo, q, f)
                  ELSE disabled_branch(srv, srvinfo, q, f)
         IN  IF r.st.exc # None
             THEN r.st
             ELSE [r.st EXCEPT !.node_status =
                      (srv.name :> Observation(r.final_state, ts, r.error)) @@ @]

\* loop_body evaluating a service again when its first evaluation failed to start it.
loop_body_retry(srv, st, f, ts) ==
    IF ~srv.monitor_enable
    THEN st
    ELSE LET once == evaluate(srv, st, f, ts)
         IN  IF once.exc = None /\ once.node_status[srv.name].error # None
             THEN evaluate(srv, once, f, ts)
             ELSE once

\* if not srv['monitor_enable']: continue
loop_body(srv, st, f, ts) ==
    IF ~srv.monitor_enable THEN st ELSE evaluate(srv, st, f, ts)

\* for srv in self.cl_services.values(): ..., left at the first uncaught exception.
RECURSIVE service_loop(_, _, _, _, _)
service_loop(specs, i, st, fails, ts) ==
    IF i > Len(specs) \/ st.exc # None
    THEN st
    ELSE service_loop(specs, i + 1, loop_body(specs[i], st, fails[specs[i].name], ts),
                      fails, ts)

\* The comparison taking whole observations, last_check included.
RunningOf_whole(status) == status

\* {k: v['running'] for k, v in status.items()}
RunningOf(status) == [s \in DOMAIN status |-> status[s].running]

\* The test without its guard on an empty initial mapping.
status_changed_unguarded(initial, final) == initial # final

\* if initial and initial != final
status_changed(initial, final) == initial # EmptyMap /\ initial # final

\* The test taking any failure for a failure of the shared volume.
shared_volume_failed_any(payload) == payload.status = "FAILURE"

\* if payload['status'] == 'FAILURE' and payload['service'] == 'ctdb_shared_volume'
shared_volume_failed(payload) ==
    payload.status = "FAILURE" /\ payload.service = SENTINEL

\* Lines 268-293: the change event, the failure event and the save.
\* r: the record of the run so far; evfail: ctdb.event.process raises.
finish(r, evfail) ==
    LET changed == status_changed(RunningOf(r.init_node_status), RunningOf(r.node_status))
        e1 == IF changed
              THEN <<[site |-> "change", payload |-> r.payload, ok |-> ~evfail]>>
              ELSE <<>>
    IN  IF r.exc # None
        THEN [r EXCEPT !.raised = TRUE]
        ELSE IF changed /\ evfail
        THEN [r EXCEPT !.events = e1, !.raised = TRUE,
                       !.exc = ErrorOf("ctdb.event.process", "MONITOR")]
        ELSE IF shared_volume_failed(r.payload)
        THEN [r EXCEPT !.events = e1 \o <<[site |-> "failure", payload |-> r.payload,
                                          ok |-> ~evfail]>>,
                       !.raised = TRUE,
                       !.exc = IF evfail THEN ErrorOf("ctdb.event.process", "MONITOR")
                               ELSE r.payload.reason]
        ELSE [r EXCEPT !.events = e1, !.wrote = TRUE, !.file = json_dumps(r.node_status)]

\* Every monitored entry's service has its enabled flag as desired and, when
\* it is to be enabled, is RUNNING: the loop body then only queries it.
in_desired_state(cl) ==
    \A i \in DOMAIN cl :
        cl[i].monitor_enable =>
            /\ srvEnable[cl[i].name] = cl[i].service_enable
            /\ cl[i].service_enable => srvState[cl[i].name] = "RUNNING"

\* monitor() once init_client() has returned True.
monitor(inp, ts) ==
    LET e == check_ctdb_shared_volume(inp.vol)
        l == load_service_file(inp.io, inp.defaults)
        loaded == e = None
        payload == IF ~loaded THEN FailurePayload(e, SENTINEL)
                   ELSE IF l.exc # None THEN FailurePayload(l.exc, SENTINEL)
                   ELSE SuccessPayload
        cl == IF loaded THEN l.cl_services ELSE <<>>
        ns == IF loaded THEN l.node_status ELSE EmptyMap
        st0 == [node_status |-> ns, payload |-> payload, calls |-> <<>>,
                queried |-> EmptyMap,
                state |-> srvState, enable |-> srvEnable, exc |-> None]
        st1 == IF loaded THEN service_loop(cl, 1, st0, inp.fails, ts) ELSE st0
    IN  finish([hook |-> "monitor", ran |-> TRUE, vol |-> inp.vol, io |-> inp.io,
                cl_services |-> cl, init_node_status |-> ns,
                node_status |-> st1.node_status, payload |-> st1.payload,
                calls |-> st1.calls, queried |-> st1.queried,
                state |-> st1.state, enable |-> st1.enable,
                exc |-> st1.exc, events |-> <<>>, raised |-> FALSE, wrote |-> FALSE,
                file |-> nodeFile, fileBefore |-> nodeFile,
                steady |-> /\ loaded
                           /\ inp.io = "ok"
                           /\ sharedFile.kind = "ok"
                           /\ in_desired_state(cl)], inp.evfail)

AllStopped == [s \in Services |-> "STOPPED"]
AllDisabled == [s \in Services |-> FALSE]

\* No hook run to look at.
NoTick ==
    [hook |-> "none", ran |-> FALSE, vol |-> "mounted", io |-> "ok",
     cl_services |-> <<>>, init_node_status |-> EmptyMap, node_status |-> EmptyMap,
     payload |-> SuccessPayload, calls |-> <<>>, queried |-> EmptyMap,
     state |-> AllStopped,
     enable |-> AllDisabled, exc |-> None, events |-> <<>>, raised |-> FALSE,
     wrote |-> FALSE, file |-> MissingFile, fileBefore |-> MissingFile,
     steady |-> FALSE]

\* A hook run that has not done anything yet.
HookRun(hook) ==
    [NoTick EXCEPT !.hook = hook, !.state = srvState, !.enable = srvEnable,
                   !.file = nodeFile, !.fileBefore = nodeFile]

\* init_client(): False when middlewared has not started or Client() raises.
init_client(started, connects) == started /\ connects

\* The payload of the events the other hooks send.
HookPayload(event, status, reason) ==
    [event |-> event, status |-> status, reason |-> reason, service |-> None]

\* init(): return when there is no client, else core.ping, which nothing guards.
init(inp) ==
    IF ~init_client(inp.started, inp.connects)
    THEN HookRun("init")
    ELSE LET r == Call([HookRun("init") EXCEPT !.ran = TRUE], "core.ping", None, inp.pings)
         IN  IF inp.pings
             THEN r
             ELSE [r EXCEPT !.raised = TRUE, !.exc = ErrorOf("core.ping", None)]

\* startup() without its re-raise after the failure event.
startup_volume_failure_swallowed(r, e, evfail) ==
    [r EXCEPT !.events = <<[site |-> "failure",
                            payload |-> HookPayload("STARTUP", "FAILURE", e),
                            ok |-> ~evfail]>>,
              !.raised = evfail,
              !.exc = IF evfail THEN ErrorOf("ctdb.event.process", "STARTUP") ELSE None]

\* except Exception as e: ctdb.event.process(STARTUP, FAILURE, str(e)); raise
startup_volume_failure(r, e, evfail) ==
    [r EXCEPT !.events = <<[site |-> "failure",
                            payload |-> HookPayload("STARTUP", "FAILURE", e),
                            ok |-> ~evfail]>>,
              !.raised = TRUE,
              !.exc = IF evfail THEN ErrorOf("ctdb.event.process", "STARTUP") ELSE e]

\* The restart of every enabled entry whatever its monitor_enable.
to_restart_unmonitored(srv) == srv.service_enable

\* if srv['monitor_enable'] and srv['service_enable']
to_restart(srv) == srv.monitor_enable /\ srv.service_enable

\* for srv in self.cl_services.values(): service.restart, which nothing guards.
RECURSIVE restart_loop(_, _, _, _)
restart_loop(specs, i, st, failing) ==
    IF i > Len(specs) \/ st.exc # None
    THEN st
    ELSE IF ~to_restart(specs[i])
    THEN restart_loop(specs, i + 1, st, failing)
    ELSE IF specs[i].name \in failing
    THEN Raise(Call(st, "service.restart", specs[i].name, FALSE),
               ErrorOf("service.restart", specs[i].name))
    ELSE restart_loop(specs, i + 1,
                      [Call(st, "service.restart", specs[i].name, TRUE) EXCEPT
                          !.state[specs[i].name] = "RUNNING"],
                      failing)

\* os.path.exists(self.ctdb_service_file)
service_file_exists == sharedFile.kind # "missing"

\* startup(): the mount check, the restarts and the STARTUP event.
startup(inp) ==
    IF ~init_client(inp.started, inp.connects)
    THEN HookRun("startup")
    ELSE LET r0 == [HookRun("startup") EXCEPT !.ran = TRUE, !.vol = inp.vol,
                                              !.io = inp.io]
             e == check_ctdb_shared_volume(inp.vol)
             l == load_service_file(inp.io, inp.defaults)
             r1 == restart_loop(l.cl_services, 1,
                                [r0 EXCEPT !.cl_services = l.cl_services],
                                inp.failing)
         IN  IF e # None
             THEN startup_volume_failure(r0, e, inp.evfail)
             ELSE IF ~service_file_exists
             THEN r0
             ELSE IF l.exc # None
             THEN [r0 EXCEPT !.cl_services = l.cl_services, !.raised = TRUE,
                             !.exc = l.exc]
             ELSE IF r1.exc # None
             THEN [r1 EXCEPT !.raised = TRUE]
             ELSE [r1 EXCEPT
                     !.events = <<[site |-> "success",
                                   payload |-> HookPayload("STARTUP", "SUCCESS", None),
                                   ok |-> ~inp.evfail]>>,
                     !.raised = inp.evfail,
                     !.exc = IF inp.evfail
                             THEN ErrorOf("ctdb.event.process", "STARTUP")
                             ELSE None]

\* The relay without its except clause: what fails leaves the hook.
relay_unguarded(r, event, queries, statusOk, evfail) ==
    IF queries /\ ~statusOk
    THEN [r EXCEPT !.raised = TRUE, !.exc = ErrorOf("ctdb.status", event)]
    ELSE [r EXCEPT !.events = <<[site |-> "relay",
                                 payload |-> HookPayload(event, "SUCCESS", None),
                                 ok |-> ~evfail]>>,
                   !.raised = evfail,
                   !.exc = IF evfail THEN ErrorOf("ctdb.event.process", event) ELSE None]

\* try: [ctdb.Client().status()]; ctdb.event.process(...) except Exception: pass
relay(r, event, queries, statusOk, evfail) ==
    IF queries /\ ~statusOk
    THEN r
    ELSE [r EXCEPT !.events = <<[site |-> "relay",
                                 payload |-> HookPayload(event, "SUCCESS", None),
                                 ok |-> ~evfail]>>]

\* startrecovery(), recovered() and ipreallocated(); only the first two ask
\* the clustering daemon for its status.
relay_hook(hook, event, queries, inp) ==
    IF ~init_client(inp.started, inp.connects)
    THEN HookRun(hook)
    ELSE relay([HookRun(hook) EXCEPT !.ran = TRUE], event, queries, inp.statusOk,
               inp.evfail)

startrecovery(inp) == relay_hook("startrecovery", "STARTRECOVERY", TRUE, inp)
recovered(inp) == relay_hook("recovered", "RECOVERED", TRUE, inp)
ipreallocated(inp) == relay_hook("ipreallocated", "IPREALLOCATED", FALSE, inp)

\* The calls that fail for one service during a tick. The sets left out behave
\* as one of these: a failed query hides the rest, and an evaluation calls at
\* most one of start and stop, with update after start and before stop.
FailChoices ==
    {{}, {"service.query"}, {"service.start"}, {"service.stop"}, {"service.update"},
     {"service.start", "service.update"}}

NoFails == [s \in Services |-> {}]

\* The mapping a tick will iterate over, given what its reads meet.
MappingMet(io, defaults) ==
    IF io = "ok" /\ sharedFile.kind = "ok" THEN sharedFile.data ELSE defaults

(***************************************************************************)
(* plugins/kubernetes_linux/infra_migrations.py: the migration runner.     *)
(***************************************************************************)

\* Invocations of k8s.migration.run a behaviour has at most.
MaxRuns == 3

\* The invocations that can be under way at once.
Runners == {"r1", "r2"}

\* The modules of plugins/kubernetes_linux/migrations, by ascending __name__.
MigrationOrder == <<"migration_0001", "migration_0002">>
Migrations == {MigrationOrder[i] : i \in DOMAIN MigrationOrder}
NameRank(name) == CHOOSE i \in DOMAIN MigrationOrder : MigrationOrder[i] = name

\* What load_modules() can yield: the modules, in any order.
ModuleLists ==
    {q \in [DOMAIN MigrationOrder -> Migrations] :
        \A i, j \in DOMAIN q : i # j => q[i] # q[j]}

\* sorted(load_modules(...), key=lambda x: x.__name__)
load_migrations(loaded) == SortSeq(loaded, LAMBDA a, b : NameRank(a) < NameRank(b))

NoMigrations == [migrations |-> <<>>]
MissingMigrationsFile == [kind |-> "missing", data |-> NoMigrations]
MalformedMigrationsFile == [kind |-> "malformed", data |-> NoMigrations]

\* applied(): the content of the file; a missing or malformed file is
\* written anew with an empty list, which is returned.
applied(file) ==
    IF file.kind = "ok"
    THEN [result |-> file.data, file |-> file]
    ELSE [result |-> NoMigrations, file |-> json_dumps(NoMigrations)]

\* update_migrations(new_applied_migrations): applied(), extend, write.
update_migrations(file, new_applied_migrations) ==
    json_dumps([migrations |-> applied(file).result.migrations \o new_applied_migrations])

\* The test taking every migration for one to run.
not_executed_any(name, executed_migrations) == TRUE

\* if name in executed_migrations: continue
not_executed(name, executed_migrations) ==
    \A i \in DOMAIN executed_migrations : executed_migrations[i] # name

\* An invocation that has not begun.
IdleRun ==
    [at |-> "idle", executed_migrations |-> <<>>, modules |-> <<>>, next |-> 1,
     applied_migrations |-> <<>>, attempts |-> <<>>]

\* The loop body without its except clause: a migration that raises ends the loop.
migrate_uncaught(r, name, ok) ==
    IF ok
    THEN [r EXCEPT !.next = @ + 1,
                   !.attempts = Append(@, [name |-> name, ok |-> TRUE]),
                   !.applied_migrations = Append(@, name)]
    ELSE [r EXCEPT !.next = Len(r.modules) + 1,
                   !.attempts = Append(@, [name |-> name, ok |-> FALSE])]

\* try: migrate(...) except Exception: continue; applied_migrations.append(name)
migrate(r, name, ok) ==
    IF ok
    THEN [r EXCEPT !.next = @ + 1,
                   !.attempts = Append(@, [name |-> name, ok |-> TRUE]),
                   !.applied_migrations = Append(@, name)]
    ELSE [r EXCEPT !.next = @ + 1,
                   !.attempts = Append(@, [name |-> name, ok |-> FALSE])]

(***************************************************************************)
(* plugins/acme_protocol_/authenticators: base.py and cloudflare.py.       *)
(***************************************************************************)

\* The keys an attributes dict may hold, and the values under them: None,
\* the empty string, a string that is not empty.
AttributeKeys == {"cloudflare_email", "api_key", "domain"}
AttributeValues == {None, "", "value"}
AttributeMaps == UNION {[K -> AttributeValues] : K \in SUBSET AttributeKeys}

\* Python's truth of a value: None and '' are false.
truthy(v) == v # None /\ v # ""

\* An authenticator before __init__ has run: self.attributes only.
NewAuthenticator(attributes) ==
    [at |-> "new", attributes |-> attributes, fields |-> EmptyMap,
     verrors |-> <<>>, exc |-> None]

\* initialize_credentials setting self.domain as well.
initialize_credentials_with_domain(a) ==
    IF AttributeKeys \subseteq DOMAIN a.attributes
    THEN [a EXCEPT !.fields = [k \in AttributeKeys |-> a.attributes[k]]]
    ELSE [a EXCEPT !.exc = "KeyError"]

\* CloudFlareAuthenticator.initialize_credentials: self.attributes[k] raises
\* KeyError for a key that is not there.
initialize_credentials(a) ==
    IF "cloudflare_email" \notin DOMAIN a.attributes
    THEN [a EXCEPT !.exc = "KeyError"]
    ELSE IF "api_key" \notin DOMAIN a.attributes
    THEN [a EXCEPT !.fields = ("cloudflare_email" :> a.attributes["cloudflare_email"]),
                   !.exc = "KeyError"]
    ELSE [a EXCEPT !.fields = ("cloudflare_email" :> a.attributes["cloudflare_email"])
                              @@ ("api_key" :> a.attributes["api_key"])]

\* getattr(self, k, None)
getattr(a, k) == IF k \in DOMAIN a.fields THEN a.fields[k] ELSE None

\* for k in ('cloudflare_email', 'domain', 'api_key')
ValidatedKeys == <<"cloudflare_email", "domain", "api_key">>

\* verrors.add(k, 'Please provide a valid value.')
verrors_add(verrors, k) == Append(verrors, [attribute |-> k, errmsg |-> "Please provide a valid value."])

\* CloudFlareAuthenticator._validate_credentials
RECURSIVE validate_keys(_, _, _)
validate_keys(a, i, verrors) ==
    IF i > Len(ValidatedKeys)
    THEN verrors
    ELSE validate_keys(a, i + 1,
                       IF ~truthy(getattr(a, ValidatedKeys[i]))
                       THEN verrors_add(verrors, ValidatedKeys[i])
                       ELSE verrors)

\* verrors.check(): raises when errors have been added.
verrors_check(verrors) == IF verrors # <<>> THEN "ValidationErrors" ELSE None

\* Authenticator.validate_credentials
validate_credentials(a) ==
    LET verrors == validate_keys(a, 1, <<>>)
    IN  [a EXCEPT !.verrors = verrors, !.exc = verrors_check(verrors)]

\* Authenticator.__init__(attributes)
construct(a) ==
    LET b == initialize_credentials(a)
    IN  IF b.exc # None
        THEN [b EXCEPT !.at = "constructed"]
        ELSE [validate_credentials(b) EXCEPT !.at = "constructed"]

\* The reader has loaded nothing yet.
NothingSeen == [data |-> EmptyMap, at |-> -1]

\* Everything but the authenticator, before anything has run.
InitButAuth ==
    /\ sharedFile = MissingSpec
    /\ nodeFile = MissingFile
    /\ srvState = AllStopped
    /\ srvEnable = AllDisabled
    /\ now = 0
    /\ tick = NoTick
    /\ prev = FALSE
    /\ lock = "unlocked"
    /\ pc = [writer |-> "idle", reader |-> "idle"]
    /\ seen = NothingSeen
    /\ migFile = MissingMigrationsFile
    /\ runner = [p \in Runners |-> IdleRun]
    /\ done = [m \in Migrations |-> 0]
    /\ tried = [m \in Migrations |-> 0]
    /\ clean = TRUE
    /\ runs = 0

Init ==
    /\ InitButAuth
    /\ auth = NewAuthenticator(EmptyMap)

\* An authenticator is about to be constructed, from any attributes.
InitAuth ==
    /\ InitButAuth
    /\ auth \in {NewAuthenticator(m) : m \in AttributeMaps}

\* What a run did to the world.
Effects(r) ==
    /\ tick' = r
    /\ nodeFile' = r.file
    /\ srvState' = r.state
    /\ srvEnable' = r.enable

\* The MONITOR hook with the control plane reachable. Its inputs: the mount
\* check, the I/O on the shared volume, the defaults, the control-plane calls
\* that fail (only calls about services the tick evaluates can).
Monitor ==
    /\ tick.hook = "none"
    /\ now < MaxTime
    /\ \/ \E vol \in {"unmounted", "error"}, evfail \in BOOLEAN :
             Effects(monitor([vol |-> vol, io |-> "ok", defaults |-> <<>>,
                              fails |-> NoFails, evfail |-> evfail], now + 1))
       \/ \E io \in {"ok", "ENOTCONN", "EIO"}, defaults \in DefaultMaps :
             /\ (io = "ok" /\ sharedFile.kind = "ok") => defaults = <<>>
             /\ \E fails \in [Services -> FailChoices], evfail \in BOOLEAN :
                   /\ \A s \in Services :
                         fails[s] # {} => s \in Monitored(MappingMet(io, defaults))
                   /\ Effects(monitor([vol |-> "mounted", io |-> io,
                                       defaults |-> defaults, fails |-> fails,
                                       evfail |-> evfail], now + 1))
    /\ now' = now + 1
    /\ UNCHANGED <<sharedFile, prev>>
    /\ UNCHANGED saveVars
    /\ UNCHANGED pluginVars

\* The MONITOR hook when init_client() returns False: it returns at once.
MonitorSkipped ==
    /\ tick.hook = "none"
    /\ tick' = [NoTick EXCEPT !.hook = "monitor", !.state = srvState,
                              !.enable = srvEnable, !.file = nodeFile,
                              !.fileBefore = nodeFile]
    /\ UNCHANGED <<sharedFile, nodeFile, srvState, srvEnable, now, prev>>
    /\ UNCHANGED saveVars
    /\ UNCHANGED pluginVars

\* The INIT hook.
InitEvent ==
    /\ tick.hook = "none"
    /\ \E started \in BOOLEAN, connects \in BOOLEAN, pings \in BOOLEAN :
          Effects(init([started |-> started, connects |-> connects, pings |-> pings]))
    /\ UNCHANGED <<sharedFile, now, prev>>
    /\ UNCHANGED saveVars
    /\ UNCHANGED pluginVars

\* The services startup() can come to restart, given what its reads meet.
Restartable(io, defaults) ==
    {q.name : q \in {d \in {MappingMet(io, defaults)[i] :
                                i \in DOMAIN MappingMet(io, defaults)} : to_restart(d)}}

\* The STARTUP hook. Its inputs: the client, the mount check, the I/O on the
\* shared volume, the defaults, the restarts and the event call that fail.
Startup ==
    /\ tick.hook = "none"
    /\ \/ \E started \in BOOLEAN, connects \in BOOLEAN,
             vol \in {"mounted", "unmounted", "error"}, evfail \in BOOLEAN :
             /\ ~init_client(started, connects) => (vol = "mounted" /\ ~evfail)
             /\ (init_client(started, connects) /\ service_file_exists) => vol # "mounted"
             /\ Effects(startup([started |-> started, connects |-> connects,
                                 vol |-> vol, io |-> "ok", defaults |-> <<>>,
                                 failing |-> {}, evfail |-> evfail]))
       \/ \E io \in {"ok", "ENOTCONN", "EIO"}, defaults \in DefaultMaps :
             /\ service_file_exists
             /\ io = "ok" => defaults = <<>>
             /\ \E failing \in SUBSET Restartable(io, defaults), evfail \in BOOLEAN :
                   /\ (io = "ENOTCONN" \/ failing # {}) => ~evfail
                   /\ Effects(startup([started |-> TRUE, connects |-> TRUE,
                                       vol |-> "mounted", io |-> io,
                                       defaults |-> defaults, failing |-> failing,
                                       evfail |-> evfail]))
    /\ UNCHANGED <<sharedFile, now, prev>>
    /\ UNCHANGED saveVars
    /\ UNCHANGED pluginVars

\* The inputs of a relay hook: the client, the status query, the event call.
RelayInputs ==
    [started : BOOLEAN, connects : BOOLEAN, statusOk : BOOLEAN, evfail : BOOLEAN]

\* The STARTRECOVERY hook.
StartRecovery ==
    /\ tick.hook = "none"
    /\ \E inp \in RelayInputs : Effects(startrecovery(inp))
    /\ UNCHANGED <<sharedFile, now, prev>>
    /\ UNCHANGED saveVars
    /\ UNCHANGED pluginVars

\* The RECOVERED hook.
Recovered ==
    /\ tick.hook = "none"
    /\ \E inp \in RelayInputs : Effects(recovered(inp))
    /\ UNCHANGED <<sharedFile, now, prev>>
    /\ UNCHANGED saveVars
    /\ UNCHANGED pluginVars

\* The IPREALLOCATED hook.
IpReallocated ==
    /\ tick.hook = "none"
    /\ \E inp \in RelayInputs : Effects(ipreallocated(inp))
    /\ UNCHANGED <<sharedFile, now, prev>>
    /\ UNCHANGED saveVars
    /\ UNCHANGED pluginVars

\* The hook's process ends.
Exit ==
    /\ tick.hook # "none"
    /\ tick' = NoTick
    /\ prev' = (tick.steady /\ tick.wrote)
    /\ UNCHANGED <<sharedFile, nodeFile, srvState, srvEnable, now>>
    /\ UNCHANGED saveVars
    /\ UNCHANGED pluginVars

\* The configuration tooling rewrites the shared service file.
WriteSharedFile ==
    /\ tick.hook = "none"
    /\ \E q \in SpecMaps : sharedFile' = [kind |-> "ok", data |-> q]
    /\ prev' = FALSE
    /\ UNCHANGED <<nodeFile, srvState, srvEnable, now, tick>>
    /\ UNCHANGED saveVars
    /\ UNCHANGED pluginVars

\* A service is started, stopped, enabled or disabled behind the hook's back.
ServiceChange ==
    /\ tick.hook = "none"
    /\ \E s \in Services, st \in {"RUNNING", "STOPPED"}, en \in BOOLEAN :
          /\ srvState' = [srvState EXCEPT ![s] = st]
          /\ srvEnable' = [srvEnable EXCEPT ![s] = en]
    /\ prev' = FALSE
    /\ UNCHANGED <<sharedFile, nodeFile, now, tick>>
    /\ UNCHANGED saveVars
    /\ UNCHANGED pluginVars

\* The per-node file is removed or left with text that is no JSON.
DamageNodeFile ==
    /\ tick.hook = "none"
    /\ nodeFile' \in {MissingFile, CorruptFile}
    /\ prev' = FALSE
    /\ UNCHANGED <<sharedFile, srvState, srvEnable, now, tick>>
    /\ UNCHANGED saveVars
    /\ UNCHANGED pluginVars

\* The monitoring of a node: the ticks, and what changes between them.
Next ==
    \/ Monitor
    \/ MonitorSkipped
    \/ Exit
    \/ WriteSharedFile
    \/ ServiceChange
    \/ DamageNodeFile

Spec == Init /\ [][Next]_vars

\* The other events of the clustering daemon, none of which touches the
\* per-node file or reads the clock.
NextEvents ==
    \/ InitEvent
    \/ Startup
    \/ StartRecovery
    \/ Recovered
    \/ IpReallocated
    \/ Exit
    \/ WriteSharedFile
    \/ ServiceChange

SpecEvents == Init /\ [][NextEvents]_vars

(***************************************************************************)
(* The save at the end of a tick, step by step, with a reader of the       *)
(* per-node file running beside it.                                        *)
(***************************************************************************)

\* The file open(..., 'w') leaves: it exists and holds no text.
TruncatedFile == [kind |-> "truncated", data |-> EmptyMap]

\* json.load(f), and the except clause around it: a missing file and text
\* that is no JSON both give {}.
json_load(file) == IF file.kind = "ok" THEN file.data ELSE EmptyMap

\* The mapping a tick at time ts comes to save: one service, observed.
TickMapping(ts, running) ==
    ServiceOrder[1] :> Observation(IF running THEN "RUNNING" ELSE "STOPPED", ts, None)

\* with open(f'{self.ctdb_service_file}.{self.pnn}', 'w') as f: the open truncates.
open_w(file) == TruncatedFile

\* A tick reaches its save and opens the per-node file for writing.
SaveOpen ==
    /\ pc.writer = "idle"
    /\ now < MaxTime
    /\ \E running \in BOOLEAN :
          tick' = [HookRun("monitor") EXCEPT
                      !.ran = TRUE,
                      !.init_node_status = json_load(nodeFile),
                      !.node_status = TickMapping(now + 1, running)]
    /\ nodeFile' = open_w(nodeFile)
    /\ now' = now + 1
    /\ pc' = [pc EXCEPT !.writer = "opened"]
    /\ UNCHANGED <<sharedFile, srvState, srvEnable, prev, lock, seen>>
    /\ UNCHANGED pluginVars

\* fcntl.lockf(f.fileno(), fcntl.LOCK_EX)
SaveLock ==
    /\ pc.writer = "opened"
    /\ lock = "unlocked"
    /\ lock' = "LOCK_EX"
    /\ pc' = [pc EXCEPT !.writer = "locked"]
    /\ UNCHANGED <<sharedFile, nodeFile, srvState, srvEnable, now, tick, prev, seen>>
    /\ UNCHANGED pluginVars

\* f.write(json.dumps(self.node_status)); f.flush(); os.fsync(f.fileno())
SaveWrite ==
    /\ pc.writer = "locked"
    /\ nodeFile' = json_dumps(tick.node_status)
    /\ tick' = [tick EXCEPT !.wrote = TRUE, !.file = json_dumps(tick.node_status)]
    /\ pc' = [pc EXCEPT !.writer = "written"]
    /\ UNCHANGED <<sharedFile, srvState, srvEnable, now, prev, lock, seen>>
    /\ UNCHANGED pluginVars

\* finally: fcntl.lockf(f.fileno(), fcntl.LOCK_UN), and the hook ends.
SaveUnlock ==
    /\ pc.writer = "written"
    /\ lock' = "unlocked"
    /\ tick' = NoTick
    /\ pc' = [pc EXCEPT !.writer = "idle"]
    /\ UNCHANGED <<sharedFile, nodeFile, srvState, srvEnable, now, prev, seen>>
    /\ UNCHANGED pluginVars

\* open(f'{self.ctdb_service_file}.{self.pnn}') by a reader: a missing file
\* gives {} at once. No lock is asked for.
ReadOpen ==
    /\ pc.reader = "idle"
    /\ IF nodeFile.kind = "missing"
       THEN /\ seen' = [data |-> EmptyMap, at |-> now]
            /\ pc' = pc
       ELSE /\ seen' = seen
            /\ pc' = [pc EXCEPT !.reader = "opened"]
    /\ UNCHANGED <<sharedFile, nodeFile, srvState, srvEnable, now, tick, prev, lock>>
    /\ UNCHANGED pluginVars

\* self.node_status = json.load(f) by the reader, and the file is closed.
ReadLoad ==
    /\ pc.reader = "opened"
    /\ seen' = [data |-> json_load(nodeFile), at |-> now]
    /\ pc' = [pc EXCEPT !.reader = "idle"]
    /\ UNCHANGED <<sharedFile, nodeFile, srvState, srvEnable, now, tick, prev, lock>>
    /\ UNCHANGED pluginVars

NextSave ==
    \/ SaveOpen
    \/ SaveLock
    \/ SaveWrite
    \/ SaveUnlock
    \/ ReadOpen
    \/ ReadLoad

SpecSave == Init /\ [][NextSave]_vars

(***************************************************************************)
(* k8s.migration.run, from await to await, any number of invocations at    *)
(* once, and what can happen to the migrations file between them.          *)
(***************************************************************************)

\* Some invocation other than p is under way.
OthersRunning(p) == \E o \in Runners \ {p} : runner[o].at = "running"

\* run() begins: k8s.migration.applied is read, load_migrations() is called.
RunBegin(p) ==
    /\ runner[p].at # "running"
    /\ runs < MaxRuns
    /\ \E loaded \in ModuleLists :
          runner' = [runner EXCEPT
                       ![p] = [IdleRun EXCEPT
                                 !.at = "running",
                                 !.executed_migrations = applied(migFile).result.migrations,
                                 !.modules = load_migrations(loaded)]]
    /\ migFile' = applied(migFile).file
    /\ clean' = (clean /\ ~OthersRunning(p))
    /\ runs' = runs + 1
    /\ UNCHANGED <<done, tried, auth>>
    /\ UNCHANGED ctdbVars

\* One pass of the loop of run(): the module is skipped, or its migrate() is
\* awaited and returns or raises.
RunStep(p) ==
    /\ runner[p].at = "running"
    /\ runner[p].next <= Len(runner[p].modules)
    /\ LET name == runner[p].modules[runner[p].next]
       IN  IF ~not_executed(name, runner[p].executed_migrations)
           THEN /\ runner' = [runner EXCEPT ![p].next = @ + 1]
                /\ UNCHANGED <<done, tried>>
           ELSE \E ok \in BOOLEAN :
                   /\ runner' = [runner EXCEPT ![p] = migrate(runner[p], name, ok)]
                   /\ tried' = [tried EXCEPT ![name] = @ + 1]
                   /\ done' = [done EXCEPT ![name] = IF ok THEN @ + 1 ELSE @]
    /\ UNCHANGED <<migFile, clean, runs, auth>>
    /\ UNCHANGED ctdbVars

\* The loop is over: k8s.migration.update_migrations(applied_migrations).
RunFinish(p) ==
    /\ runner[p].at = "running"
    /\ runner[p].next > Len(runner[p].modules)
    /\ migFile' = update_migrations(migFile, runner[p].applied_migrations)
    /\ runner' = [runner EXCEPT ![p].at = "finished"]
    /\ UNCHANGED <<done, tried, clean, runs, auth>>
    /\ UNCHANGED ctdbVars

\* The migrations file is removed, or left with text that is no JSON.
DamageMigrationsFile ==
    /\ migFile.kind = "ok"
    /\ migFile' \in {MissingMigrationsFile, MalformedMigrationsFile}
    /\ clean' = FALSE
    /\ UNCHANGED <<runner, done, tried, runs, auth>>
    /\ UNCHANGED ctdbVars

NextMigrations ==
    \/ \E p \in Runners : RunBegin(p)
    \/ \E p \in Runners : RunStep(p)
    \/ \E p \in Runners : RunFinish(p)
    \/ DamageMigrationsFile

SpecMigrations == Init /\ [][NextMigrations]_vars

(***************************************************************************)
(* The construction of a CloudFlareAuthenticator.                          *)
(***************************************************************************)

\* CloudFlareAuthenticator(attributes)
Construct ==
    /\ auth.at = "new"
    /\ auth' = construct(auth)
    /\ UNCHANGED <<migFile, runner, done, tried, clean, runs>>
    /\ UNCHANGED ctdbVars

NextAuth == Construct

SpecAuth == InitAuth /\ [][NextAuth]_vars


(***************************************************************************)
(* Vocabulary of the properties. In the state right after a tick, now is   *)
(* the timestamp the tick read.                                            *)
(***************************************************************************)
Range(q) == {q[i] : i \in DOMAIN q}

\* A MONITOR tick has just ended, with the control plane reachable.
Ticked == tick.hook = "monitor" /\ tick.ran

FailedCalls == {c \in Range(tick.calls) : ~c.ok}
FailedStarts == {c.service : c \in {d \in FailedCalls : d.method = "service.start"}}
CallsAbout(s) == {c \in Range(tick.calls) : c.service = s}

\* No call but service.start failed: the loop ran to its end.
OnlyStartsFailed == \A c \in FailedCalls : c.method = "service.start"

\* The mount check failed or the load raised the not-connected error.
VolumeFailure == tick.vol # "mounted" \/ tick.io = "ENOTCONN"

\* The tick iterated over the mapping of the shared configuration file.
ConfigurationRead == tick.vol = "mounted" /\ tick.io = "ok" /\ sharedFile.kind = "ok"

\* The service was evaluated in this tick: its observation carries the tick's time.
Evaluated(s) ==
    s \in DOMAIN tick.node_status /\ tick.node_status[s].last_check = now

\* The service of the last service.start call that failed.
LastFailedStart ==
    LET idx == {i \in DOMAIN tick.calls :
                   tick.calls[i].method = "service.start" /\ ~tick.calls[i].ok}
    IN  tick.calls[CHOOSE i \in idx : \A j \in idx : j <= i].service

\* What a per-node file holds about a service.
Absent == [running |-> FALSE, last_check |-> -1, error |-> "absent"]
Persisted(file, s) ==
    IF file.kind = "ok" /\ s \in DOMAIN file.data THEN file.data[s] ELSE Absent

\* C1: a tick whose mount check fails or whose load raises ENOTCONN makes no
\* service.query, service.start, service.stop or service.update call.
C1_NoServiceCallOnVolumeFailure ==
    (Ticked /\ VolumeFailure) => tick.calls = <<>>

\* C2: a tick whose mount check fails or whose load raises ENOTCONN ends with
\* the result FAILURE about the shared-volume sentinel, raises, and leaves the
\* per-node file as it was.
C2_VolumeFailureAborts ==
    (Ticked /\ VolumeFailure) =>
        /\ tick.payload.status = "FAILURE"
        /\ tick.payload.service = SENTINEL
        /\ tick.raised
        /\ ~tick.wrote
        /\ nodeFile = tick.fileBefore


\* C3: when service.start fails in a tick (and no other kind of call does), each
\* service whose start failed is observed {running: false, error: <the
\* message>}, every monitored entry of the mapping is still evaluated, and the
\* result is FAILURE about the last service whose start failed.
C3_StartFailureRecorded ==
    (Ticked /\ FailedStarts # {} /\ OnlyStartsFailed) =>
        /\ \A s \in FailedStarts :
              /\ s \in DOMAIN tick.node_status
              /\ tick.node_status[s] =
                    [running |-> FALSE, last_check |-> now,
                     error |-> ErrorOf("service.start", s)]
        /\ \A s \in Monitored(tick.cl_services) :
              /\ Evaluated(s)
              /\ \E c \in CallsAbout(s) : c.method = "service.query"
        /\ tick.payload.status = "FAILURE"
        /\ tick.payload.service = LastFailedStart

\* Two starts fail in one tick, the other service being evaluated all the same.
C3_Witness ==
    /\ Ticked
    /\ OnlyStartsFailed
    /\ FailedStarts = Services
    /\ tick.payload.service = ServiceOrder[Len(ServiceOrder)]
    /\ \A s \in Services : Evaluated(s) /\ ~tick.node_status[s].running

\* The monitored entries with service_enable false that the tick came to.
DisabledReached ==
    {s \in Monitored(tick.cl_services) :
        /\ \E i \in DOMAIN tick.cl_services :
              tick.cl_services[i].name = s /\ ~tick.cl_services[i].service_enable
        /\ \E c \in CallsAbout(s) : c.method = "service.query" /\ c.ok}

\* C4: whatever service.stop or service.update do for a monitored entry with
\* service_enable false of the configuration, the entry is observed {running: false, error: None},
\* the other monitored entries are evaluated and the observations are saved.
C4_StopFailureTolerated ==
    (/\ Ticked
     /\ ConfigurationRead
     /\ \A c \in FailedCalls :
           c.method \in {"service.stop", "service.update"} /\ c.service \in DisabledReached
     /\ \A e \in Range(tick.events) : e.ok) =>
        /\ \A s \in DisabledReached :
              /\ s \in DOMAIN tick.node_status
              /\ tick.node_status[s] =
                    [running |-> FALSE, last_check |-> now, error |-> None]
        /\ \A s \in Monitored(tick.cl_services) : Evaluated(s)
        /\ tick.wrote
        /\ nodeFile = json_dumps(tick.node_status)

\* C5: for an entry of the shared configuration with monitor_enable false (that
\* the mapping the tick iterates does not monitor either), a tick leaves what
\* the per-node file holds about the service as it was, and makes no call about it.
C5_UnmonitoredUntouched ==
    Ticked =>
        \A s \in Unmonitored(sharedFile.data) \ Monitored(tick.cl_services) :
            /\ Persisted(nodeFile, s) = Persisted(tick.fileBefore, s)
            /\ CallsAbout(s) = {}

\* Some service known before and after the tick changed its running value.
RunningDiffers ==
    \E s \in DOMAIN tick.init_node_status \cap DOMAIN tick.node_status :
        tick.init_node_status[s].running # tick.node_status[s].running

\* C6: a tick that starts from observations and ends with another running
\* value for one of the services calls ctdb.event.process exactly once.
C6_ChangeEventOnce ==
    (/\ Ticked
     /\ OnlyStartsFailed
     /\ tick.init_node_status # EmptyMap
     /\ RunningDiffers) =>
        Len(tick.events) = 1

\* A service seen running before is seen stopped after a failed start, and
\* the one event carries the failure.
C6_Witness ==
    /\ Ticked
    /\ OnlyStartsFailed
    /\ FailedStarts # {}
    /\ RunningDiffers
    /\ Len(tick.events) = 1
    /\ tick.events[1].payload.status = "FAILURE"

\* C7: a tick that starts from no observations (first tick, per-node file
\* missing or no JSON) emits no change event; short of a shared-volume
\* failure it makes no ctdb.event.process call at all.
C7_FirstRunSuppressed ==
    (Ticked /\ tick.init_node_status = EmptyMap) =>
        /\ \A e \in Range(tick.events) : e.site # "change"
        /\ ~shared_volume_failed(tick.payload) => tick.events = <<>>

\* The per-node file held no JSON, the tick observes a service and says nothing.
C7_Witness ==
    /\ Ticked
    /\ tick.fileBefore = CorruptFile
    /\ tick.init_node_status = EmptyMap
    /\ \E s \in Services : Evaluated(s) /\ tick.node_status[s].running
    /\ tick.wrote
    /\ tick.events = <<>>

\* C8: the change decision looks only at the services observed before and
\* after: a tick that starts from observations and changes the running value
\* of none of them emits no event, even when it adds an observation.
C8_ComparisonRestricted ==
    (/\ Ticked
     /\ OnlyStartsFailed
     /\ tick.init_node_status # EmptyMap
     /\ ~RunningDiffers) =>
        tick.events = <<>>

\* The tick directly follows a completed tick in the desired state, nothing
\* having changed outside, and completes in the desired state too.
SecondQuietTick == Ticked /\ prev /\ tick.steady /\ tick.wrote

\* C9 as stated: the second of two such ticks produces the observations the
\* first produced, and emits no event.
C9_IdenticalOutput ==
    SecondQuietTick =>
        /\ tick.node_status = tick.fileBefore.data
        /\ tick.events = <<>>

\* C9, amended: the second tick produces the same services with the same
\* running and error values, refreshes last_check of the monitored ones only,
\* and emits no event.
C9_SameRunningAndError ==
    SecondQuietTick =>
        /\ DOMAIN tick.node_status = DOMAIN tick.fileBefore.data
        /\ \A s \in DOMAIN tick.node_status :
              /\ tick.node_status[s].running = tick.fileBefore.data[s].running
              /\ tick.node_status[s].error = tick.fileBefore.data[s].error
              /\ tick.node_status[s].last_check =
                    IF s \in Monitored(tick.cl_services)
                    THEN now
                    ELSE tick.fileBefore.data[s].last_check
        /\ tick.events = <<>>

\* Both services monitored, one kept running and one kept stopped, seen twice.
C9_Witness ==
    /\ SecondQuietTick
    /\ Monitored(tick.cl_services) = Services
    /\ \E s \in Services : tick.node_status[s].running
    /\ \E s \in Services : ~tick.node_status[s].running
    /\ \A s \in Services : tick.fileBefore.data[s].last_check < now

\* C10: a tick whose result is FAILURE (here: after a failed start, the
\* configuration having been read) emits an event carrying FAILURE and raises.
C10_FailureSurfaces ==
    (Ticked /\ ConfigurationRead /\ OnlyStartsFailed /\ tick.payload.status = "FAILURE") =>
        /\ \E e \in Range(tick.events) : e.payload.status = "FAILURE"
        /\ tick.raised

\* The services whose service.start call returned in this tick.
Started == {c.service : c \in {d \in Range(tick.calls) : d.method = "service.start" /\ d.ok}}

\* C11: a service whose service.start returned (no call about it failing) is
\* observed {running: true, error: None} with the tick's time; when nothing
\* fails in the tick (no call, no event, not the shared volume) the result is
\* SUCCESS and the observations are saved.
C11_StartSuccessObserved ==
    (Ticked /\ Started # {}) =>
        /\ \A s \in Started :
              (\A c \in CallsAbout(s) : c.ok) =>
                  /\ s \in DOMAIN tick.node_status
                  /\ tick.node_status[s] =
                        [running |-> TRUE, last_check |-> now, error |-> None]
        /\ (/\ FailedCalls = {}
            /\ ~VolumeFailure
            /\ \A e \in Range(tick.events) : e.ok) =>
               /\ tick.payload.status = "SUCCESS"
               /\ tick.wrote
               /\ nodeFile = json_dumps(tick.node_status)
               /\ \A s \in Started : srvState[s] = "RUNNING"

\* The configuration enables svcA, which was stopped: it is started, observed
\* running, and the tick succeeds and saves.
C11_Witness ==
    /\ Ticked
    /\ ConfigurationRead
    /\ Started = {"svcA"}
    /\ tick.fileBefore = MissingFile
    /\ FailedCalls = {}
    /\ tick.payload.status = "SUCCESS"
    /\ tick.wrote
    /\ nodeFile.data["svcA"] = [running |-> TRUE, last_check |-> now, error |-> None]

\* A STARTUP hook has just ended, with the control plane reachable.
StartedUp == tick.hook = "startup" /\ tick.ran

RestartCalls == {i \in DOMAIN tick.calls : tick.calls[i].method = "service.restart"}

\* C12: a STARTUP whose mount check fails sends exactly one event, STARTUP
\* with status FAILURE and the error's text, raises, and restarts nothing.
C12_StartupVolumeFailure ==
    (StartedUp /\ tick.vol # "mounted") =>
        /\ Len(tick.events) = 1
        /\ tick.events[1].payload =
              HookPayload("STARTUP", "FAILURE", check_ctdb_shared_volume(tick.vol))
        /\ tick.raised
        /\ RestartCalls = {}

\* The volume is not mounted while the configuration has a service to restart.
C12_Witness ==
    /\ StartedUp
    /\ tick.vol = "unmounted"
    /\ sharedFile.kind = "ok"
    /\ \E i \in DOMAIN sharedFile.data : to_restart(sharedFile.data[i])
    /\ tick.events[1].ok
    /\ tick.events[1].payload.reason = NOT_MOUNTED
    /\ tick.exc = NOT_MOUNTED
    /\ tick.raised
    /\ tick.calls = <<>>

\* C13: a STARTUP with the volume mounted in which nothing fails restarts once
\* each service of the configuration with monitor_enable and service_enable
\* set, restarts no other, and then sends the STARTUP event with status
\* SUCCESS; the event is sent on a first run too, the shared file not existing.
C13_StartupRestartsAndReports ==
    (/\ StartedUp
     /\ tick.vol = "mounted"
     /\ tick.io = "ok"
     /\ FailedCalls = {}
     /\ \A e \in Range(tick.events) : e.ok) =>
        /\ sharedFile.kind = "ok" =>
              /\ \A i \in DOMAIN sharedFile.data :
                    Cardinality({j \in RestartCalls :
                                    tick.calls[j].service = sharedFile.data[i].name})
                    = IF to_restart(sharedFile.data[i]) THEN 1 ELSE 0
              /\ \A j \in RestartCalls : tick.calls[j].service \in Names(sharedFile.data)
        /\ Len(tick.events) = 1
        /\ tick.events[1].payload = HookPayload("STARTUP", "SUCCESS", None)

\* An INIT or STARTUP hook that could not set its client up, or one of whose
\* control-plane calls failed.
ControlPlaneUnreachable ==
    \/ ~tick.ran
    \/ FailedCalls # {}
    \/ \E e \in Range(tick.events) : ~e.ok

\* C14: an INIT or STARTUP hook that meets an unreachable control plane raises.
C14_UnreachableIsFatal ==
    (tick.hook \in {"init", "startup"} /\ ControlPlaneUnreachable) => tick.raised

\* A MONITOR tick that met an unreachable control plane: no client, or (the
\* configuration having been read) a service.query that failed.
MonitorUnreachable ==
    /\ tick.hook = "monitor"
    /\ \/ ~tick.ran
       \/ /\ ConfigurationRead
          /\ \E c \in FailedCalls : c.method = "service.query"

\* C15: a MONITOR tick that meets an unreachable control plane is skipped: it
\* returns without raising, sends no event and leaves the per-node file alone.
C15_UnreachableSkipsTick ==
    MonitorUnreachable =>
        /\ ~tick.raised
        /\ tick.events = <<>>
        /\ ~tick.wrote
        /\ nodeFile = tick.fileBefore

RelayHooks == {"startrecovery", "recovered", "ipreallocated"}

\* C16: a STARTRECOVERY, RECOVERED or IPREALLOCATED hook returns without
\* raising whatever fails in it, changes nothing, and sends at most one event,
\* which carries the hook's name and SUCCESS.
C16_RelayIsBestEffort ==
    tick.hook \in RelayHooks =>
        /\ ~tick.raised
        /\ tick.exc = None
        /\ Len(tick.events) <= 1
        /\ \A e \in Range(tick.events) :
              /\ e.payload.status = "SUCCESS"
              /\ e.payload.event =
                    CASE tick.hook = "startrecovery" -> "STARTRECOVERY"
                      [] tick.hook = "recovered" -> "RECOVERED"
                      [] OTHER -> "IPREALLOCATED"
        /\ tick.calls = <<>>
        /\ srvState = tick.state /\ srvEnable = tick.enable

\* The ctdb.event.process call of a RECOVERED hook fails, and the hook returns.
C16_Witness ==
    /\ tick.hook = "recovered"
    /\ tick.ran
    /\ Len(tick.events) = 1
    /\ ~tick.events[1].ok
    /\ ~tick.raised

\* C17: after a tick that no failure of the shared volume aborted (here: one
\* that read the configuration, and whose service.query calls all returned),
\* the per-node file holds the complete mapping the tick computed: what it
\* loaded, overwritten with an observation of every monitored service.
C17_FileHoldsLastTick ==
    (/\ Ticked
     /\ ConfigurationRead
     /\ \A c \in FailedCalls : c.method # "service.query") =>
        /\ tick.wrote
        /\ nodeFile = json_dumps(tick.node_status)
        /\ \A s \in Monitored(tick.cl_services) : Evaluated(s)
        /\ \A s \in DOMAIN tick.init_node_status \ Monitored(tick.cl_services) :
              /\ s \in DOMAIN tick.node_status
              /\ tick.node_status[s] = tick.init_node_status[s]

\* The complete mappings of the tick at time k: nothing before the first tick.
CompleteAt(k) ==
    IF k <= 0 THEN {EmptyMap} ELSE {TickMapping(k, running) : running \in BOOLEAN}

\* C18: what a reader loads from the per-node file while ticks save it is the
\* complete mapping of the previous or of the current tick, never an empty
\* or partly written file.
C18_ReaderSeesCompleteMapping ==
    seen # NothingSeen => seen.data \in CompleteAt(seen.at - 1) \cup CompleteAt(seen.at)

\* C18, the writer's side: the text of the per-node file only changes while
\* the writer holds the exclusive lock.
C18_ModifiedUnderLock ==
    [][nodeFile' # nodeFile => lock = "LOCK_EX"]_vars

\* The calls of a method about a service, by their place in the tick.
CallsOf(method, s) ==
    {i \in DOMAIN tick.calls : tick.calls[i].method = method /\ tick.calls[i].service = s}

\* The entry of the mapping the tick iterated that names the service.
EntryOf(s) ==
    tick.cl_services[CHOOSE i \in DOMAIN tick.cl_services : tick.cl_services[i].name = s]

ServiceMethods == {"service.query", "service.start", "service.stop", "service.update"}

\* C19: a tick calls each method at most once per service, queries exactly the
\* monitored services it comes to, in the order of the mapping, finishes with
\* one service before it queries the next, and saves for each monitored
\* service the outcome of that one evaluation.
C19_OneEvaluationInOrder ==
    Ticked =>
        /\ \A s \in Services, m \in ServiceMethods : Cardinality(CallsOf(m, s)) <= 1
        /\ \A i \in DOMAIN tick.calls :
              tick.calls[i].service \in Monitored(tick.cl_services)
        /\ \A i, j \in DOMAIN tick.calls :
              (i < j /\ tick.calls[i].service # tick.calls[j].service) =>
                  Position(tick.calls[i].service) < Position(tick.calls[j].service)
        /\ \A s \in Services :
              \A i \in CallsOf("service.query", s) : \A j \in DOMAIN tick.calls :
                  tick.calls[j].service = s => i <= j
        /\ tick.wrote =>
              \A s \in Monitored(tick.cl_services) :
                  /\ Cardinality(CallsOf("service.query", s)) = 1
                  /\ Persisted(nodeFile, s) =
                        [running |-> /\ EntryOf(s).service_enable
                                     /\ \/ tick.queried[s].state = "RUNNING"
                                        \/ \E i \in CallsOf("service.start", s) :
                                              tick.calls[i].ok,
                         last_check |-> now,
                         error |-> IF s \in FailedStarts
                                   THEN ErrorOf("service.start", s)
                                   ELSE None]

\* Both services are monitored: the first fails to start, the second is
\* stopped, and the tick saves both outcomes.
C19_Witness ==
    /\ Ticked
    /\ ConfigurationRead
    /\ tick.wrote
    /\ Monitored(tick.cl_services) = Services
    /\ FailedStarts = {ServiceOrder[1]}
    /\ \E i \in CallsOf("service.stop", ServiceOrder[2]) : tick.calls[i].ok
    /\ Len(tick.calls) >= 4

\* The services with service_enable set that the tick queried.
EnabledQueried ==
    {s \in DOMAIN tick.queried : EntryOf(s).service_enable}

\* C20: for a queried service with service_enable set, service.update is
\* called (once) exactly when the queried flag was false, whatever the state
\* of the service and the outcome of its start, and sets the flag; after a
\* tick whose calls all returned, every monitored service has its flag equal
\* to service_enable and is RUNNING exactly when service_enable is set.
C20_DesiredStateSync ==
    Ticked =>
        /\ \A s \in EnabledQueried :
              /\ Cardinality(CallsOf("service.update", s)) =
                    IF tick.queried[s].enable THEN 0 ELSE 1
              /\ \A i \in CallsOf("service.update", s) :
                    tick.calls[i].ok => srvEnable[s]
        /\ FailedCalls = {} =>
              \A s \in Monitored(tick.cl_services) :
                  /\ srvEnable[s] = EntryOf(s).service_enable
                  /\ (srvState[s] = "RUNNING") = EntryOf(s).service_enable

\* A service found stopped and not enabled fails to start; its flag is set
\* all the same.
C20_Witness ==
    /\ Ticked
    /\ ConfigurationRead
    /\ \E s \in EnabledQueried :
          /\ ~tick.queried[s].enable
          /\ tick.queried[s].state = "STOPPED"
          /\ s \in FailedStarts
          /\ \E i \in CallsOf("service.update", s) : tick.calls[i].ok
          /\ srvEnable[s]
          /\ srvState[s] = "STOPPED"

(***************************************************************************)
(* Vocabulary of the properties of the migration runner.                   *)
(***************************************************************************)
Recorded == Range(migFile.data.migrations)

AttemptsOf(r) == {r.attempts[i].name : i \in DOMAIN r.attempts}
FailedIn(r) == {r.attempts[i].name : i \in {j \in DOMAIN r.attempts : ~r.attempts[j].ok}}

\* No invocation is under way.
Quiescent == \A p \in Runners : runner[p].at # "running"

\* C21: an invocation attempts no migration recorded in the file it read,
\* attempts the others in ascending order of name, and, the invocations not
\* overlapping and the file being left alone, what has completed is
\* recorded once the invocation is over and nothing completes a second time.
C21_PendingOnlyInOrder ==
    /\ \A p \in Runners :
          LET r == runner[p]
          IN  /\ AttemptsOf(r) \cap Range(r.executed_migrations) = {}
              /\ \A i, j \in DOMAIN r.attempts :
                    i < j => NameRank(r.attempts[i].name) < NameRank(r.attempts[j].name)
              /\ (clean /\ r.at = "finished") =>
                    /\ migFile.kind = "ok"
                    /\ Range(r.applied_migrations) \subseteq Recorded
    /\ clean => \A m \in Migrations : done[m] <= 1
    /\ (clean /\ Quiescent) => \A m \in Migrations : (done[m] = 1) = (m \in Recorded)

\* Every migration has completed once and is recorded; an invocation that
\* found them all recorded has ended without attempting any.
C21_Witness ==
    /\ clean
    /\ \A m \in Migrations : done[m] = 1 /\ tried[m] = 1
    /\ Recorded = Migrations
    /\ \E p \in Runners :
          /\ runner[p].at = "finished"
          /\ Len(runner[p].executed_migrations) = Len(MigrationOrder)
          /\ runner[p].attempts = <<>>

\* C22: a migration that raises is not among those the invocation records,
\* which are those that returned, in order; the invocation goes on and, once
\* over, has attempted every migration the file it read did not record; a
\* migration is recorded (the file being left alone) only once it completed.
C22_FailureDoesNotStopRun ==
    /\ \A p \in Runners :
          LET r == runner[p]
          IN  /\ FailedIn(r) \cap Range(r.applied_migrations) = {}
              /\ Range(r.applied_migrations) = AttemptsOf(r) \ FailedIn(r)
              /\ r.at = "finished" =>
                    AttemptsOf(r) = Migrations \ Range(r.executed_migrations)
              /\ r.at = "running" =>
                    AttemptsOf(r) =
                        {r.modules[i] : i \in 1..(r.next - 1)} \ Range(r.executed_migrations)
    /\ clean => \A m \in Recorded : done[m] >= 1

\* The first migration raised in one invocation, the second completing all
\* the same; the next invocation attempted the first again, and it completed.
C22_Witness ==
    /\ clean
    /\ \E p, q \in Runners :
          /\ p # q
          /\ runner[q].at = "finished"
          /\ runner[q].attempts = <<[name |-> MigrationOrder[1], ok |-> FALSE],
                                    [name |-> MigrationOrder[2], ok |-> TRUE]>>
          /\ runner[p].at = "finished"
          /\ runner[p].executed_migrations = <<MigrationOrder[2]>>
          /\ runner[p].attempts = <<[name |-> MigrationOrder[1], ok |-> TRUE]>>
    /\ migFile.data.migrations = <<MigrationOrder[2], MigrationOrder[1]>>

\* C23: whatever the invocations do, overlapping or not, and whatever happens
\* to the file between them, no migration completes twice and the recorded
\* list names no migration twice.
C23_AtMostOnce ==
    /\ \A m \in Migrations : done[m] <= 1
    /\ \A i, j \in DOMAIN migFile.data.migrations :
          i # j => migFile.data.migrations[i] # migFile.data.migrations[j]

\* An authenticator has been constructed.
Constructed == auth.at = "constructed"

\* The attributes hold a non-empty cloudflare_email and a non-empty api_key.
CredentialsGiven ==
    /\ {"cloudflare_email", "api_key"} \subseteq DOMAIN auth.attributes
    /\ truthy(auth.attributes["cloudflare_email"])
    /\ truthy(auth.attributes["api_key"])

\* C24: constructing the authenticator raises a validation error exactly when
\* its cloudflare_email or its api_key is missing or empty.
C24_ValidCredentialsAccepted ==
    Constructed =>
        /\ CredentialsGiven => (auth.verrors = <<>> /\ auth.exc = None)
        /\ auth.exc = "ValidationErrors" => ~CredentialsGiven

====
